---- MODULE Spec2Model ----
(***************************************************************************)
(* The resilient Zigbee write queue of danfoss.py: queue_zigbee_write      *)
(* (submit), process_pending_writes (the once-a-minute sweep) and the      *)
(* module-level dict _pending_writes they share.                           *)
(*                                                                         *)
(* Scheduling is cooperative: a task runs without interruption until it    *)
(* awaits the transport (zha_device.write_zigbee_attribute).  Every action *)
(* below is therefore one run of a task from a call or a resumption to its *)
(* next await or its end.  Pending entries are Python dicts, shared by     *)
(* reference: a sweep keeps the dict it read before the await, whatever    *)
(* the map holds for the key afterwards.  They are modelled as a heap      *)
(* (entries) addressed by references, the map holding references.          *)
(***************************************************************************)
EXTENDS Integers, Sequences, FiniteSets, TLC

\* ------------------------------------------------------------ constants
MAX_RETRIES == 10
BASE_DELAY_SECONDS == 60
MAX_DELAY_SECONDS == 14400
\* @time_trigger("cron(* * * * *)"): process_pending_writes fires every minute.
CRON_PERIOD_SECONDS == 60
CLUSTER_THERMOSTAT == 513
ATTR_EXTERNAL_MEASURED_ROOM_SENSOR == 16405
EXTERNAL_SENSOR_DISABLED == -8000

\* --------------------------------------------------------------- bounds
\* Calls of queue_zigbee_write made in one behaviour.
MaxSubmits == 2
\* Cron firings a transport write may stay in flight across.
MaxFlightTicks == 1
\* Cron firings in one behaviour of Spec (SpecLong does not count them).
MaxTicks == 1

\* ------------------------------------------------------------- universe
Devices == {"trv_a", "trv_b"}
name_by_user == [d \in Devices |-> IF d = "trv_a" THEN "Living room" ELSE "Bedroom"]
Targets == {<<CLUSTER_THERMOSTAT, ATTR_EXTERNAL_MEASURED_ROOM_SENSOR>>}
Keys == {<<d, t[1], t[2]>> : d \in Devices, t \in Targets}
Requests ==
    { [value |-> 2070, description |-> "external temp 20.7"],
      [value |-> EXTERNAL_SENSOR_DISABLED, description |-> "disable external sensor"] }
\* What the transport answers: a response, or one of the three failures.
Responses == {"ok", "TimeoutError", "ZHAException", "None"}
\* Tasks that can be alive at once; a call or a cron firing takes the lowest idle one.
SubmitIds == {1, 2}
SweepIds == {1, 2}

\* The device registry and the ZHA gateway are external: what they answer is an
\* input of the step that asks.  A view gives, per device, what a lookup made
\* during the step finds: "ok" (dr.async_get finds the device and
\* get_zigbee_device resolves it), "no_zha" (the device is registered, and
\* get_zigbee_device returns None), "gone" (dr.async_get returns None).  Only
\* the devices a step can look up vary in its view.
Status == {"ok", "no_zha", "gone"}
Views(relevant) ==
    {v \in [Devices -> Status] : \A d \in Devices \ relevant : v[d] = "ok"}
DevicesOf(keys) == {keys[i][1] : i \in 1..Len(keys)}

None == "None"
NoKey == <<"", 0, 0>>
NoRef == 0
\* A reference is the number of the queue_zigbee_write call that built the dict.
Refs == 1..MaxSubmits
NoEntry ==
    [device_id |-> "", device_name |-> "", cluster |-> 0, attribute |-> 0,
     value |-> 0, description |-> "", retry_count |-> -1, last_attempt |-> -1]

\* time.time().  The code only ever subtracts two timestamps, so every stored
\* timestamp is kept relative to the current instant: the clock reads 0, and a
\* step that lets dt seconds pass moves every stored timestamp back by dt.
now == 0

VARIABLES
    pending_writes,  \* _pending_writes: key -> reference (NoRef: no entry)
    key_order,       \* insertion order of the keys of _pending_writes
    entries,         \* the entry dicts, by reference
    submit,          \* the queue_zigbee_write tasks
    sweep,           \* the process_pending_writes tasks
    nsub,            \* calls of queue_zigbee_write so far
    ticks,           \* cron firings so far (counted by Spec only)
    reported,        \* per entry: "Retry succeeded" log lines so far
    ev               \* what the last step did

queue_vars == <<pending_writes, key_order, entries, submit, sweep, nsub, ticks, reported, ev>>

\* The aggregation and feedback side of the script (calculate_weighted_climate,
\* update_room_climate_sensors, update_external_temperatures).  The write queue
\* above never touches it.
VARIABLES
    samples,         \* the weighted_devices handed to calculate_weighted_climate
    aggregate,       \* what calculate_weighted_climate returned for them
    readings,        \* per weighted sensor of the home, what it reports now
    published,       \* the states of the virtual sensors sensor.climate_<area>_temperature
    cycle,           \* the update_room_climate_sensors tasks
    fb               \* what the last step of a feedback cycle did

climate_vars == <<samples, aggregate, readings, published, cycle, fb>>

vars == <<pending_writes, key_order, entries, submit, sweep, nsub, ticks, reported, ev,
          samples, aggregate, readings, published, cycle, fb>>

\* calculate_weighted_climate has not been called.
NoAggregate == [device_class |-> "unset", result |-> [m |-> 0, e |-> 1]]

IdleSubmit ==
    [pc |-> "idle", device |-> "", cluster |-> 0, attribute |-> 0, value |-> 0,
     description |-> "", seq |-> 0, had |-> NoRef, flight |-> 0]
IdleSweep ==
    [pc |-> "idle", now |-> 0, rest |-> <<>>, key |-> NoKey, entry |-> NoRef,
     value |-> 0, flight |-> 0]

NoSeen == [what |-> "none", n |-> -1, delay |-> 0, elapsed |-> 0]
NoOut == [k \in Keys |-> NoSeen]
\* What the last step did.
\*   op           "call" (queue_zigbee_write up to its await), "submit" (it
\*                returned), "sweep" (a cron firing: process_pending_writes up to
\*                its first await), "resume" (its attempt returned)
\*   proc         the task
\*   key, value, description   the request (call, submit); the key attempted (resume)
\*   answered     what the transport did: "ok", "failed", or "" (no write returned)
\*   ret          submit: the value returned; resume: what lines 248-256 did
\*                ("success", "failed", "gave_up")
\*   raised       resume: the del of line 250 or 256 raised KeyError
\*   ref          the entry dict the step built (submit) or attempted (resume)
\*   prev         the entry the map held for key before the step, prevn its retry
\*                count and prevvalue its value; atcall (submit): it is the entry
\*                the map held when the call was made
\*   dt           sweep: the seconds that passed
\*   out          sweep, resume: per key, what the loop did with it in this step
\*   end          sweep, resume: how the run ended ("noop": line 206, "done",
\*                "writing": it awaits an attempt, "KeyError")
\*   reports      resume: "Retry succeeded" lines logged so far for the dict
\*   snap, heads  snapshot (get_pending_writes returned): the dict returned, and
\*                the first eight characters of each device's id
NoEv ==
    [op |-> "init", proc |-> 0, key |-> NoKey, value |-> 0, description |-> "",
     answered |-> "", ret |-> "", raised |-> FALSE, ref |-> NoRef, prev |-> NoRef,
     prevn |-> -1, prevvalue |-> 0, atcall |-> FALSE, dt |-> 0, out |-> NoOut,
     end |-> "", reports |-> 0, snap |-> <<>>, heads |-> <<>>]

Min(a, b) == IF a < b THEN a ELSE b
Max(a, b) == IF a > b THEN a ELSE b

\* ---------------------------------------------------------------- code
dr_async_get(reg, device_id) == IF reg[device_id] = "gone" THEN None ELSE device_id

get_zigbee_device(reg, device) == IF reg[device] = "ok" THEN device ELSE None

attempt_zigbee_write(response) == response = "ok"

\* The transport's answers as a caller of attempt_zigbee_write can tell them
\* apart: the three failures all come back as False (lines 174-183) and differ
\* in the line logged only, so a step that resumes a task takes one answer for
\* each value attempt_zigbee_write returns.
Answers ==
    {CHOOSE r \in Responses : attempt_zigbee_write(r) = b :
        b \in {attempt_zigbee_write(r) : r \in Responses}}

\* As BackoffDelay, but the ceiling is reached one retry earlier.
BackoffDelayCeilingAtSeven(retry_count) ==
    IF retry_count >= 7 THEN MAX_DELAY_SECONDS
    ELSE BASE_DELAY_SECONDS * (2 ^ retry_count)

BackoffDelay(retry_count) ==
    Min(BASE_DELAY_SECONDS * (2 ^ retry_count), MAX_DELAY_SECONDS)

NotYetDue(nw, entry) == nw - entry.last_attempt < BackoffDelay(entry.retry_count)

NewEntry(device, cluster, attribute, value, description, t) ==
    [device_id |-> device, device_name |-> name_by_user[device], cluster |-> cluster,
     attribute |-> attribute, value |-> value, description |-> description,
     retry_count |-> 0, last_attempt |-> t]

\* del _pending_writes[key], on a state st = [pw, ko, es, out]
DelKey(st, key) ==
    [st EXCEPT !.pw[key] = NoRef,
               !.ko = SelectSeq(st.ko, LAMBDA k : k # key)]

\* As CountFailure, but the failure is not counted: only the time is noted.
CountFailureKeepsCount(st, r, nw) ==
    [st EXCEPT !.es[r].last_attempt = nw]

\* entry['retry_count'] += 1; entry['last_attempt'] = now
CountFailure(st, r, nw) ==
    [st EXCEPT !.es[r].retry_count = @ + 1, !.es[r].last_attempt = nw]

\* Notes what the loop did with key, whose entry it read as entry.
Mark(st, key, what, entry, nw) ==
    [st EXCEPT !.out[key] =
        [what |-> what, n |-> entry.retry_count,
         delay |-> BackoffDelay(entry.retry_count),
         elapsed |-> nw - entry.last_attempt]]

\* The for loop of process_pending_writes over the keys left, up to its next
\* await (pc "writing"), its end ("done") or the KeyError of line 212.
RECURSIVE RunLoop(_, _, _, _)
RunLoop(keys, nw, st, reg) ==
    IF keys = <<>>
    THEN [pc |-> "done", st |-> st, key |-> NoKey, entry |-> NoRef, rest |-> <<>>]
    ELSE
      LET key == Head(keys)
          r == st.pw[key]
      IN IF r = NoRef
         THEN [pc |-> "KeyError", st |-> [st EXCEPT !.out[key].what = "KeyError"],
               key |-> key, entry |-> NoRef, rest |-> Tail(keys)]
         ELSE
           LET entry == st.es[r]
           IN IF NotYetDue(nw, entry)
              THEN RunLoop(Tail(keys), nw, Mark(st, key, "not_due", entry, nw), reg)
              ELSE IF dr_async_get(reg, entry.device_id) = None
              THEN RunLoop(Tail(keys), nw,
                           Mark(DelKey(st, key), key, "device_gone", entry, nw), reg)
              ELSE IF get_zigbee_device(reg, entry.device_id) = None
              THEN LET st1 == CountFailure(st, r, nw)
                   IN IF st1.es[r].retry_count >= MAX_RETRIES
                      THEN RunLoop(Tail(keys), nw,
                                   Mark(DelKey(st1, key), key, "no_zha_gave_up", entry, nw),
                                   reg)
                      ELSE RunLoop(Tail(keys), nw, Mark(st1, key, "no_zha", entry, nw), reg)
              ELSE [pc |-> "writing", st |-> Mark(st, key, "write", entry, nw),
                    key |-> key, entry |-> r, rest |-> Tail(keys)]

\* As AfterAttempt, but a failed retry never removes the entry.
AfterAttemptNeverGivesUp(st, key, r, nw, success) ==
    IF success
    THEN IF st.pw[key] = NoRef
         THEN [raised |-> TRUE, st |-> st, what |-> "success"]
         ELSE [raised |-> FALSE, st |-> DelKey(st, key), what |-> "success"]
    ELSE [raised |-> FALSE, st |-> CountFailure(st, r, nw), what |-> "failed"]

\* Lines 248-256: what the sweep does with the outcome of its attempt for key,
\* made with the entry dict r.  raised: the del found no such key.
AfterAttempt(st, key, r, nw, success) ==
    IF success
    THEN IF st.pw[key] = NoRef
         THEN [raised |-> TRUE, st |-> st, what |-> "success"]
         ELSE [raised |-> FALSE, st |-> DelKey(st, key), what |-> "success"]
    ELSE LET st1 == CountFailure(st, r, nw)
         IN IF st1.es[r].retry_count >= MAX_RETRIES
            THEN IF st.pw[key] = NoRef
                 THEN [raised |-> TRUE, st |-> st1, what |-> "gave_up"]
                 ELSE [raised |-> FALSE, st |-> DelKey(st1, key), what |-> "gave_up"]
            ELSE [raised |-> FALSE, st |-> st1, what |-> "failed"]

\* Dicts nothing refers to any more are dropped.
Live(pw, sw) ==
    {pw[k] : k \in Keys} \cup {sw[w].entry : w \in {x \in SweepIds : sw[x].pc = "writing"}}
Collect(es, pw, sw) == [r \in Refs |-> IF r \in Live(pw, sw) THEN es[r] ELSE NoEntry]
CollectCount(rp, pw, sw) == [r \in Refs |-> IF r \in Live(pw, sw) THEN rp[r] ELSE 0]

State == [pw |-> pending_writes, ko |-> key_order, es |-> entries, out |-> NoOut]

EntryOf(es, r) == IF r = NoRef THEN NoEntry ELSE es[r]

\* Lines 142-151: the dict queue_zigbee_write stores for a failed request.
QueuedEntry(me, t) ==
    NewEntry(me.device, me.cluster, me.attribute, me.value, me.description, t)

\* _pending_writes[key] = {...}: an assignment to a key the dict already holds
\* keeps the key's place in the insertion order.
Enqueue(st, key, r, entry) ==
    [st EXCEPT !.pw[key] = r, !.es[r] = entry,
               !.ko = IF st.pw[key] # NoRef THEN st.ko ELSE Append(st.ko, key)]

\* As SubmitOutcome, but a request that replaces a pending entry inherits the
\* entry's retry count.
SubmitOutcomeKeepsCount(st, me, key, success, t) ==
    IF success
    THEN [ret |-> "True", st |-> IF st.pw[key] # NoRef THEN DelKey(st, key) ELSE st]
    ELSE [ret |-> "False",
          st |-> Enqueue(st, key, me.seq,
                         [QueuedEntry(me, t) EXCEPT !.retry_count =
                             IF st.pw[key] # NoRef THEN st.es[st.pw[key]].retry_count ELSE 0])]

\* As SubmitOutcome, but a successful write leaves the pending entry in place.
SubmitOutcomeKeepsEntry(st, me, key, success, t) ==
    IF success
    THEN [ret |-> "True", st |-> st]
    ELSE [ret |-> "False", st |-> Enqueue(st, key, me.seq, QueuedEntry(me, t))]

\* Lines 135-153: queue_zigbee_write after its await.
SubmitOutcome(st, me, key, success, t) ==
    IF success
    THEN [ret |-> "True", st |-> IF st.pw[key] # NoRef THEN DelKey(st, key) ELSE st]
    ELSE [ret |-> "False", st |-> Enqueue(st, key, me.seq, QueuedEntry(me, t))]

InFlight ==
    {<<"submit", s>> : s \in {x \in SubmitIds : submit[x].pc = "writing"}}
        \cup {<<"sweep", w>> : w \in {x \in SweepIds : sweep[x].pc = "writing"}}
FlightOf(p) == IF p[1] = "submit" THEN submit[p[2]].flight ELSE sweep[p[2]].flight

\* Seconds to the first cron firing at which the entry, or some pending entry, is due.
DueAt(entry) ==
    Max(entry.last_attempt + BackoffDelay(entry.retry_count), CRON_PERIOD_SECONDS)
RECURSIVE MinDue(_)
MinDue(keys) ==
    IF Len(keys) = 1 THEN DueAt(entries[pending_writes[keys[1]]])
    ELSE Min(DueAt(entries[pending_writes[Head(keys)]]), MinDue(Tail(keys)))

\* How far the clock moves to the next cron firing that is modelled.  While a
\* write is in flight: one period.  Otherwise the firings at which no entry is
\* due (the sweep returns without touching anything) may be skipped.
TickChoices ==
    IF InFlight # {} THEN {CRON_PERIOD_SECONDS}
    ELSE IF key_order = <<>> THEN {}
    ELSE {MinDue(key_order)}

LowestIdle(ids, tasks) ==
    LET idle == {i \in ids : tasks[i].pc = "idle"}
    IN {i \in idle : \A j \in idle : i <= j}

\* ----------------------------------------------------------------- Init
QueueInit ==
    /\ pending_writes = [k \in Keys |-> NoRef]
    /\ key_order = <<>>
    /\ entries = [r \in Refs |-> NoEntry]
    /\ submit = [s \in SubmitIds |-> IdleSubmit]
    /\ sweep = [w \in SweepIds |-> IdleSweep]
    /\ nsub = 0
    /\ ticks = 0
    /\ reported = [r \in Refs |-> 0]
    /\ ev = NoEv

\* Nothing of the aggregation and feedback side has run.
ClimateIdle ==
    /\ samples = <<>>
    /\ aggregate = NoAggregate
    /\ readings = <<>>
    /\ published = <<>>
    /\ cycle = <<>>
    /\ fb = <<>>

Init == QueueInit /\ ClimateIdle

\* -------------------------------------------------------------- actions
\* queue_zigbee_write(device, cluster, attribute, value, description), lines
\* 125-133: up to the await of attempt_zigbee_write, or the return False of an
\* unresolved device.  The caller's DeviceEntry may be stale.
SubmitCall(s, d, t, rq, reg) ==
    /\ s \in LowestIdle(SubmitIds, submit)
    /\ nsub < MaxSubmits
    /\ nsub' = nsub + 1
    /\ LET key == <<d, t[1], t[2]>>
           e == [NoEv EXCEPT !.proc = s, !.key = key, !.value = rq.value,
                             !.description = rq.description,
                             !.prev = pending_writes[key],
                             !.prevn = EntryOf(entries, pending_writes[key]).retry_count,
                             !.prevvalue = EntryOf(entries, pending_writes[key]).value,
                             !.atcall = TRUE]
       IN IF get_zigbee_device(reg, d) = None
          THEN /\ submit' = submit
               /\ ev' = [e EXCEPT !.op = "submit", !.ret = "False"]
          ELSE /\ submit' = [submit EXCEPT ![s] =
                                [pc |-> "writing", device |-> d, cluster |-> t[1],
                                 attribute |-> t[2], value |-> rq.value,
                                 description |-> rq.description, seq |-> nsub + 1,
                                 had |-> pending_writes[key], flight |-> 0]]
               /\ ev' = [e EXCEPT !.op = "call"]
    /\ UNCHANGED <<pending_writes, key_order, entries, sweep, ticks, reported>>
    /\ UNCHANGED climate_vars

\* queue_zigbee_write resumes with the transport's answer, lines 133-153.
SubmitReturn(s, resp) ==
    /\ submit[s].pc = "writing"
    /\ LET me == submit[s]
           key == <<me.device, me.cluster, me.attribute>>
           res == SubmitOutcome(State, me, key, attempt_zigbee_write(resp), now)
           built == IF res.ret = "False" THEN me.seq ELSE NoRef
       IN /\ pending_writes' = res.st.pw
          /\ key_order' = res.st.ko
          /\ entries' = Collect(res.st.es, res.st.pw, sweep)
          /\ reported' = CollectCount(reported, res.st.pw, sweep)
          /\ ev' = [NoEv EXCEPT !.op = "submit", !.proc = s, !.key = key,
                                !.value = me.value, !.description = me.description,
                                !.answered = IF resp = "ok" THEN "ok" ELSE "failed",
                                !.ret = res.ret, !.ref = built,
                                !.prev = pending_writes[key],
                                !.prevn = EntryOf(entries, pending_writes[key]).retry_count,
                                !.prevvalue = EntryOf(entries, pending_writes[key]).value,
                                !.atcall = (me.had = pending_writes[key])]
    /\ submit' = [submit EXCEPT ![s] = IdleSubmit]
    /\ UNCHANGED <<sweep, nsub, ticks>>
    /\ UNCHANGED climate_vars

\* dt seconds pass: the writes in flight have lasted one cron firing more, and
\* the stored timestamps lie dt further in the past.
Aged(tasks) ==
    [i \in DOMAIN tasks |->
        IF tasks[i].pc = "writing" THEN [tasks[i] EXCEPT !.flight = @ + 1] ELSE tasks[i]]
AgedSweeps(dt) ==
    [w \in SweepIds |->
        IF sweep[w].pc = "writing"
        THEN [sweep[w] EXCEPT !.flight = @ + 1, !.now = @ - dt]
        ELSE sweep[w]]
AgedEntries(dt) ==
    [r \in Refs |->
        IF entries[r] = NoEntry THEN NoEntry
        ELSE [entries[r] EXCEPT !.last_attempt = @ - dt]]

\* What a sweep task becomes after a run of its loop.
SweepAfter(run, nw) ==
    IF run.pc = "writing"
    THEN [pc |-> "writing", now |-> nw, rest |-> run.rest, key |-> run.key,
          entry |-> run.entry, value |-> run.st.es[run.entry].value, flight |-> 0]
    ELSE IdleSweep

\* The clock reaches the next cron firing and process_pending_writes starts,
\* lines 203-246: up to its first await, or its end.
CronTick(w, dt, reg) ==
    /\ w \in LowestIdle(SweepIds, sweep)
    /\ dt \in TickChoices
    /\ \A p \in InFlight : FlightOf(p) < MaxFlightTicks
    /\ submit' = Aged(submit)
    /\ LET st0 == [State EXCEPT !.es = AgedEntries(dt)]
           run == IF key_order = <<>>
                  THEN [pc |-> "noop", st |-> st0, key |-> NoKey, entry |-> NoRef,
                        rest |-> <<>>]
                  ELSE RunLoop(key_order, now, st0, reg)
           sw == [AgedSweeps(dt) EXCEPT ![w] = SweepAfter(run, now)]
       IN /\ sweep' = sw
          /\ pending_writes' = run.st.pw
          /\ key_order' = run.st.ko
          /\ entries' = Collect(run.st.es, run.st.pw, sw)
          /\ reported' = CollectCount(reported, run.st.pw, sw)
          /\ ev' = [NoEv EXCEPT !.op = "sweep", !.proc = w, !.dt = dt,
                                !.out = run.st.out, !.end = run.pc]
    /\ UNCHANGED nsub
    /\ UNCHANGED climate_vars

\* process_pending_writes resumes with the transport's answer, lines 239-256,
\* and goes on with the keys left.
SweepReturn(w, resp, reg) ==
    /\ sweep[w].pc = "writing"
    /\ LET me == sweep[w]
           success == attempt_zigbee_write(resp)
           att == AfterAttempt(State, me.key, me.entry, me.now, success)
           run == IF att.raised
                  THEN [pc |-> "KeyError", st |-> att.st, key |-> me.key,
                        entry |-> NoRef, rest |-> me.rest]
                  ELSE RunLoop(me.rest, me.now, att.st, reg)
           sw == [sweep EXCEPT ![w] = SweepAfter(run, me.now)]
           rp == IF success THEN [reported EXCEPT ![me.entry] = @ + 1] ELSE reported
       IN /\ sweep' = sw
          /\ pending_writes' = run.st.pw
          /\ key_order' = run.st.ko
          /\ entries' = Collect(run.st.es, run.st.pw, sw)
          /\ reported' = CollectCount(rp, run.st.pw, sw)
          /\ ev' = [NoEv EXCEPT !.op = "resume", !.proc = w, !.key = me.key,
                                !.value = me.value,
                                !.answered = IF resp = "ok" THEN "ok" ELSE "failed",
                                !.ret = att.what, !.raised = att.raised,
                                !.ref = me.entry,
                                !.prev = pending_writes[me.key],
                                !.prevn = EntryOf(entries, pending_writes[me.key]).retry_count,
                                !.prevvalue = EntryOf(entries, pending_writes[me.key]).value,
                                !.out = run.st.out, !.end = run.pc,
                                !.reports = rp[me.entry]]
    /\ UNCHANGED <<submit, nsub, ticks>>
    /\ UNCHANGED climate_vars

\* A cron firing of a behaviour that counts them.
Tick(w, dt, reg) ==
    /\ ticks < MaxTicks
    /\ ticks' = ticks + 1
    /\ CronTick(w, dt, reg)

\* A cron firing of a behaviour that does not.
TickLong(w, dt, reg) ==
    /\ UNCHANGED ticks
    /\ CronTick(w, dt, reg)

\* The views of the lookups a step can make: queue_zigbee_write resolves its
\* device; a sweep looks up the devices of the keys it has still to visit.
CallViews(d) == {v \in Views({d}) : v[d] # "gone"}
\* The keys of a run at time nw whose entries are due: lines 220 and 227 look up
\* their devices and no others.
DueKeys(keys, nw) ==
    SelectSeq(keys, LAMBDA k : pending_writes[k] # NoRef
                               /\ ~NotYetDue(nw, entries[pending_writes[k]]))
TickViews(dt) == Views(DevicesOf(DueKeys(key_order, dt)))
ResumeViews(w) == Views(DevicesOf(DueKeys(sweep[w].rest, sweep[w].now)))

\* All devices, a bounded number of cron firings.
Next ==
    \/ \E s \in SubmitIds, d \in Devices, t \in Targets, rq \in Requests :
          \E reg \in CallViews(d) : SubmitCall(s, d, t, rq, reg)
    \/ \E s \in SubmitIds, resp \in Answers : SubmitReturn(s, resp)
    \/ \E w \in SweepIds, dt \in TickChoices :
          \E reg \in TickViews(dt) : Tick(w, dt, reg)
    \/ \E w \in SweepIds, resp \in Answers :
          \E reg \in ResumeViews(w) : SweepReturn(w, resp, reg)

Spec == Init /\ [][Next]_vars

\* One device, any number of cron firings: an entry can run through all its retries.
LongDevices == {"trv_a"}

NextLong ==
    \/ \E s \in SubmitIds, d \in LongDevices, t \in Targets, rq \in Requests :
          \E reg \in CallViews(d) : SubmitCall(s, d, t, rq, reg)
    \/ \E s \in SubmitIds, resp \in Answers : SubmitReturn(s, resp)
    \/ \E w \in SweepIds, dt \in TickChoices :
          \E reg \in TickViews(dt) : TickLong(w, dt, reg)
    \/ \E w \in SweepIds, resp \in Answers :
          \E reg \in ResumeViews(w) : SweepReturn(w, resp, reg)

SpecLong == Init /\ [][NextLong]_vars

\* What the environment is assumed to keep doing: the cron trigger keeps firing
\* (@time_trigger("cron(* * * * *)"), and with it time advances), and every
\* transport write returns, with a response or one of the failures, to the task
\* that awaits it.
Fairness ==
    /\ WF_vars(\E w \in SweepIds, dt \in TickChoices :
                  \E reg \in TickViews(dt) : TickLong(w, dt, reg))
    /\ \A w \in SweepIds :
          WF_vars(\E resp \in Answers :
                     \E reg \in ResumeViews(w) : SweepReturn(w, resp, reg))
    /\ \A s \in SubmitIds : WF_vars(\E resp \in Answers : SubmitReturn(s, resp))

\* SpecLong under these assumptions.
SpecLive == Init /\ [][NextLong]_vars /\ Fairness

\* The views in which get_zigbee_device resolves every device the registry
\* still has: line 228 finds a zha_device, so that every failure a sweep counts
\* (lines 252-253) is the failure of a transport write.
Resolving(views) == {v \in views : \A d \in Devices : v[d] # "no_zha"}

\* SpecLong with such views in the sweeps.
NextRetries ==
    \/ \E s \in SubmitIds, d \in LongDevices, t \in Targets, rq \in Requests :
          \E reg \in CallViews(d) : SubmitCall(s, d, t, rq, reg)
    \/ \E s \in SubmitIds, resp \in Answers : SubmitReturn(s, resp)
    \/ \E w \in SweepIds, dt \in TickChoices :
          \E reg \in Resolving(TickViews(dt)) : TickLong(w, dt, reg)
    \/ \E w \in SweepIds, resp \in Answers :
          \E reg \in Resolving(ResumeViews(w)) : SweepReturn(w, resp, reg)

SpecRetries == Init /\ [][NextRetries]_vars

\* ---------------------------------------------------------- diagnostics
\* The first eight characters of a device id, device.id[:8].  The registry
\* gives every device a random id of 32 hexadecimal digits, so two devices may
\* share them.
IdHeads == {"0a1b2c3d", "9f8e7d6c"}

\* f"{k[0][:8]}.../{k[1]:04x}/{k[2]:04x}": the first eight characters of the
\* device id, then cluster and attribute in hexadecimal (at least four digits,
\* so distinct numbers give distinct texts and the numbers stand for them).
SnapshotLabel(heads, k) == <<heads[k[1]], k[2], k[3]>>

\* The value the snapshot gives for an entry, lines 193-197.
SnapshotValue(entry) ==
    [device |-> entry.device_name, value |-> entry.value,
     retries |-> entry.retry_count, description |-> entry.description]

\* get_pending_writes(), lines 191-199: a dict comprehension over
\* _pending_writes.items(); of the items with one label the last one stays.
get_pending_writes(heads) ==
    LET at(l) == {i \in 1..Len(key_order) : SnapshotLabel(heads, key_order[i]) = l}
        last(l) == CHOOSE i \in at(l) : \A j \in at(l) : j <= i
    IN [l \in {SnapshotLabel(heads, key_order[i]) : i \in 1..Len(key_order)} |->
           SnapshotValue(entries[pending_writes[key_order[last(l)]]])]

\* The service call get_pending_writes.
GetPendingWrites(heads) ==
    /\ ev' = [NoEv EXCEPT !.op = "snapshot", !.snap = get_pending_writes(heads),
                          !.heads = heads]
    /\ UNCHANGED <<pending_writes, key_order, entries, submit, sweep, nsub, ticks,
                   reported>>
    /\ UNCHANGED climate_vars

\* The queue with its diagnostics service.
NextDiag ==
    \/ Next
    \/ \E heads \in [Devices -> IdHeads] : GetPendingWrites(heads)

SpecDiag == Init /\ [][NextDiag]_vars

\* --------------------------------------------------------------- floats
\* A Python float is a binary floating-point number, and every operation on
\* floats rounds its exact result to the nearest float, ties to the even
\* significand.  The model keeps this arithmetic and shortens the significand
\* from 53 bits to FloatBits bits: a float is [m, e], the number m * 2^e, with
\* m odd or the float zero [0, 0].  Exponents are not limited (no overflow to
\* inf, no subnormals) and there is one zero; nan and inf are not modelled.
FloatBits == 14

Pow2(n) == 2 ^ n

RECURSIVE BitLength(_)
BitLength(n) == IF n = 0 THEN 0 ELSE 1 + BitLength(n \div 2)

Abs(n) == IF n < 0 THEN 0 - n ELSE n
Sign(n) == IF n < 0 THEN 0 - 1 ELSE 1

RECURSIVE Float(_, _)
Float(m, e) ==
    IF m = 0 THEN [m |-> 0, e |-> 0]
    ELSE IF m % 2 = 0 THEN Float(m \div 2, e + 1)
    ELSE [m |-> m, e |-> e]

\* n / 2^k for a natural n, rounded to the nearest integer, ties to even.
RoundHalfEven(n, k) ==
    IF k = 0 THEN n
    ELSE LET q == n \div Pow2(k)
             r == n % Pow2(k)
             half == Pow2(k - 1)
         IN IF r > half \/ (r = half /\ q % 2 = 1) THEN q + 1 ELSE q

\* The float nearest to n * 2^e.
FloatRound(n, e) ==
    LET k == Max(0, BitLength(Abs(n)) - FloatBits)
    IN Float(Sign(n) * RoundHalfEven(Abs(n), k), e + k)

FloatMul(a, b) == FloatRound(a.m * b.m, a.e + b.e)

FloatAdd(a, b) ==
    LET e == Min(a.e, b.e)
    IN FloatRound(a.m * Pow2(a.e - e) + b.m * Pow2(b.e - e), e)

\* a / b for b # 0: both significands are scaled to FloatBits bits, the
\* quotient is taken to FloatBits + 1 bits at least, and a last bit records
\* whether the division left a remainder.
FloatDiv(a, b) ==
    LET sa == FloatBits - BitLength(Abs(a.m))
        sb == FloatBits - BitLength(Abs(b.m))
        num == Abs(a.m) * Pow2(sa) * Pow2(FloatBits + 1)
        den == Abs(b.m) * Pow2(sb)
        n == 2 * (num \div den) + (IF num % den = 0 THEN 0 ELSE 1)
    IN IF a.m = 0 THEN Float(0, 0)
       ELSE FloatRound(Sign(a.m) * Sign(b.m) * n,
                       (a.e - sa) - (b.e - sb) - (FloatBits + 1) - 1)

FloatLess(a, b) ==
    LET e == Min(a.e, b.e)
    IN a.m * Pow2(a.e - e) < b.m * Pow2(b.e - e)

FloatLeq(a, b) == a = b \/ FloatLess(a, b)

\* Texts.  A sensor state, an attribute or a label suffix is a text: the
\* decimal numeral with t tenths (Numeral(207) is "20.7"), or a word that is no
\* numeral ("unavailable", "unknown", "heat", "abc").
Numeral(t) == [text |-> "numeral", tenths |-> t]
Word(w) == [text |-> w, tenths |-> 0]
IsNumeral(x) == x.text = "numeral"

\* float(x) of a numeral: the float nearest to the decimal number.  float() of
\* a word raises ValueError, which every caller handles before using the
\* result.
float(x) == FloatDiv(Float(x.tenths, 0), Float(10, 0))

\* f"{x:.1f}": the numeral with one decimal nearest to the float's exact
\* value, ties to even.
format_1f(x) ==
    Numeral(IF x.e >= 0 THEN x.m * 10 * Pow2(x.e)
            ELSE Sign(x.m) * RoundHalfEven(Abs(x.m) * 10, 0 - x.e))

\* round(x): the integer nearest to the float, ties to even.
round(x) ==
    IF x.e >= 0 THEN x.m * Pow2(x.e)
    ELSE Sign(x.m) * RoundHalfEven(Abs(x.m), 0 - x.e)

\* ----------------------------------------------------------- aggregator
\* Python's None where a float is expected: a record that no float equals.
NoValue == [m |-> 0, e |-> 1]

\* An entity of the entity registry with what the state machine holds for it:
\* in_state is FALSE when state.get raises NameError, state is its state, and
\* current_temperature its attribute of that name (Word("None"): no attribute).
Entity(domain, class, in_state, st, temp) ==
    [domain |-> domain, original_device_class |-> class, in_state |-> in_state,
     state |-> st, current_temperature |-> temp]

\* get_climate_entity_for_device returning None.
NoEntity == Entity("None", "None", FALSE, Word("None"), Word("None"))

\* The entity of the device the aggregator reads: the first entry that is a
\* climate entity (for temperature) or a sensor of the device class.
get_climate_entity_for_device(device, device_class) ==
    LET matches(entry) ==
            \/ device_class = "temperature" /\ entry.domain = "climate"
            \/ entry.domain = "sensor" /\ entry.original_device_class = device_class
        hits == {i \in 1..Len(device.entries) : matches(device.entries[i])}
    IN IF hits = {} THEN NoEntity
       ELSE device.entries[CHOOSE i \in hits : \A j \in hits : i <= j]

\* The numeric value of the entity, NoValue when it has none.
get_sensor_value(entity) ==
    IF ~entity.in_state THEN NoValue
    ELSE IF entity.state \in {Word("unavailable"), Word("unknown"), Word("None")} THEN NoValue
    ELSE IF entity.domain = "climate"
         THEN IF entity.current_temperature = Word("None") THEN NoValue
              ELSE IF IsNumeral(entity.current_temperature)
                   THEN float(entity.current_temperature)
                   ELSE NoValue
    ELSE IF IsNumeral(entity.state) THEN float(entity.state)
    ELSE NoValue

\* One turn of the loop of calculate_weighted_climate, as the loop would be
\* if it added the weight of a device whether or not the device has a value.
AccumulateEveryWeight(totals, device_class, sample) ==
    LET entity == get_climate_entity_for_device(sample.device, device_class)
        value == IF entity = NoEntity THEN NoValue ELSE get_sensor_value(entity)
    IN [total_weighted_value |->
            IF value = NoValue THEN totals.total_weighted_value
            ELSE FloatAdd(totals.total_weighted_value, FloatMul(value, sample.weight)),
        total_weight |-> FloatAdd(totals.total_weight, sample.weight)]

\* One turn of the loop of calculate_weighted_climate.
Accumulate(totals, device_class, sample) ==
    LET entity == get_climate_entity_for_device(sample.device, device_class)
        value == IF entity = NoEntity THEN NoValue ELSE get_sensor_value(entity)
    IN IF value = NoValue THEN totals
       ELSE [total_weighted_value |->
                 FloatAdd(totals.total_weighted_value, FloatMul(value, sample.weight)),
             total_weight |-> FloatAdd(totals.total_weight, sample.weight)]

\* The totals after the loop has run over the first n weighted devices.
RECURSIVE Totals(_, _, _)
Totals(device_class, weighted_devices, n) ==
    IF n = 0 THEN [total_weighted_value |-> Float(0, 0), total_weight |-> Float(0, 0)]
    ELSE Accumulate(Totals(device_class, weighted_devices, n - 1), device_class,
                    weighted_devices[n])

\* The end of calculate_weighted_climate, as it would be if it looked at the
\* weighted sum instead of the weight before dividing.
AverageUnlessSumIsZero(totals) ==
    IF totals.total_weighted_value = Float(0, 0) THEN NoValue
    ELSE IF totals.total_weight = Float(0, 0) THEN Float(0, 0)
    ELSE FloatDiv(totals.total_weighted_value, totals.total_weight)

\* The end of calculate_weighted_climate: None or the quotient.
Average(totals) ==
    IF totals.total_weight = Float(0, 0) THEN NoValue
    ELSE FloatDiv(totals.total_weighted_value, totals.total_weight)

calculate_weighted_climate(device_class, weighted_devices) ==
    Average(Totals(device_class, weighted_devices, Len(weighted_devices)))

\* ---- the aggregator on its own
MaxSamples == 2

\* Readings in tenths ("14.0", "20.0") and weights in tenths
\* ("sensor_weight_-1.0", "..._0", "..._0.3", "..._1.0").
ReadingTenths == {140, 200}
WeightTenths == {0 - 10, 0, 3, 10}

SensorStates ==
    {Numeral(t) : t \in ReadingTenths} \cup {Word("unavailable"), Word("unknown"), Word("abc")}

Device(device_entries) == [entries |-> device_entries]

\* The devices a weight label can sit on: one with no entity, ones with a
\* temperature sensor in each state or unknown to the state machine, a
\* thermostat with and without current_temperature, one whose state is
\* unavailable, and one with a humidity sensor listed before the temperature
\* sensor.
SampleDevices ==
    {Device(<<>>)}
    \cup {Device(<<Entity("sensor", "temperature", TRUE, st, Word("None"))>>) : st \in SensorStates}
    \cup {Device(<<Entity("sensor", "temperature", FALSE, Word("None"), Word("None"))>>),
          Device(<<Entity("climate", "None", TRUE, Word("heat"), Numeral(200))>>),
          Device(<<Entity("climate", "None", TRUE, Word("heat"), Word("None"))>>),
          Device(<<Entity("climate", "None", TRUE, Word("unavailable"), Word("None"))>>),
          Device(<<Entity("sensor", "humidity", TRUE, Numeral(450), Word("None")),
                   Entity("sensor", "temperature", TRUE, Numeral(220), Word("None"))>>)}

WeightedDevices ==
    {[device |-> d, weight |-> float(Numeral(w))] : d \in SampleDevices, w \in WeightTenths}

SampleLists == UNION {[1..n -> WeightedDevices] : n \in 0..MaxSamples}

InitAggregate ==
    /\ QueueInit
    /\ samples \in SampleLists
    /\ aggregate = NoAggregate
    /\ readings = <<>>
    /\ published = <<>>
    /\ cycle = <<>>
    /\ fb = <<>>

\* calculate_weighted_climate is called on the samples.
Aggregate(device_class) ==
    /\ aggregate = NoAggregate
    /\ aggregate' = [device_class |-> device_class,
                     result |-> calculate_weighted_climate(device_class, samples)]
    /\ UNCHANGED <<samples, readings, published, cycle, fb>>
    /\ UNCHANGED queue_vars

NextAggregate == \E device_class \in {"temperature", "humidity"} : Aggregate(device_class)

SpecAggregate == InitAggregate /\ [][NextAggregate]_vars

\* ------------------------------------------------------- feedback cycle
\* update_room_climate_sensors and the update_external_temperatures it awaits.
\* A cycle runs without suspension from its trigger through the scan, the
\* aggregation and publication of every area and the second scan up to the
\* first queue_zigbee_write whose transport write suspends it; it is resumed
\* when that write returns.  Of queue_zigbee_write, the operation of the write
\* queue modelled above, the cycle keeps what it hands over (device, value) and
\* whether the call suspends (the device resolves on the Zigbee network) or
\* returns at once.
DEVICE_MODEL == "eTRV0103"

MaxCycles == 2
CycleIds == 1..MaxCycles

\* The home: an area with two radiator valves, an area with one, a valve
\* without an area, two weighted sensors in the first area
\* ("sensor_weight_1.0" reading "20.0", "sensor_weight_0.5" reading "22.0" or
\* unknown) and one in the second, reading "14.0", whose label may be no
\* number ("sensor_weight_high").  A sensor device has a humidity and a
\* temperature sensor entity.
Sensors == {"sensor_1", "sensor_2", "sensor_3"}

SensorChoices ==
    [sensor_1 : {[label |-> Numeral(10), state |-> Numeral(200)]},
     sensor_2 : {[label |-> Numeral(5), state |-> st] :
                     st \in {Numeral(220), Word("unknown")}},
     sensor_3 : {[label |-> Numeral(10), state |-> Numeral(140)],
                 [label |-> Word("high"), state |-> Numeral(140)]}]

Trv(id, area_id) ==
    [id |-> id, area_id |-> area_id, model |-> DEVICE_MODEL, label |-> Word("None"),
     entries |-> <<>>]

Sensor(id, area_id, reading) ==
    [id |-> id, area_id |-> area_id, model |-> "sensor", label |-> reading.label,
     entries |-> <<Entity("sensor", "humidity", TRUE, Numeral(450), Word("None")),
                   Entity("sensor", "temperature", TRUE, reading.state, Word("None"))>>]

\* dr.devices, in the order of the registry, when the sensors report rd.
dr_devices(rd) ==
    <<Trv("trv_a", "area_a"),
      Sensor("sensor_1", "area_a", rd.sensor_1),
      Sensor("sensor_2", "area_a", rd.sensor_2),
      Trv("trv_d", None),
      Trv("trv_b", "area_b"),
      Trv("trv_c", "area_a"),
      Sensor("sensor_3", "area_b", rd.sensor_3)>>

Range(seq) == {seq[i] : i \in 1..Len(seq)}

\* The keys of a dict filled in the order of the sequence.
RECURSIVE AreasOf(_, _)
AreasOf(devices, n) ==
    IF n = 0 THEN <<>>
    ELSE LET before == AreasOf(devices, n - 1)
         IN IF devices[n].area_id \in Range(before) THEN before
            ELSE Append(before, devices[n].area_id)

\* get_all_climate_devices: the valves and the weighted devices of each area.
\* A weight label is "sensor_weight_" followed by the text in label; a text
\* float() rejects gives a warning and no weighted device.
get_all_climate_devices(rd) ==
    LET located == SelectSeq(dr_devices(rd), LAMBDA d : d.area_id # None)
        trvs == SelectSeq(located, LAMBDA d : d.model = DEVICE_MODEL)
        labelled == SelectSeq(located, LAMBDA d : IsNumeral(d.label))
        weighted(a) == SelectSeq(labelled, LAMBDA d : d.area_id = a)
    IN [areas |-> AreasOf(trvs, Len(trvs)),
        trv_devices_by_area |->
            [a \in Range(AreasOf(trvs, Len(trvs))) |->
                SelectSeq(trvs, LAMBDA d : d.area_id = a)],
        weighted_devices_by_area |->
            [a \in Range(AreasOf(labelled, Len(labelled))) |->
                [i \in 1..Len(weighted(a)) |->
                    [device |-> weighted(a)[i], weight |-> float(weighted(a)[i].label)]]]]

\* weighted_devices_by_area.get(area_id, [])
WeightedDevicesOf(scan, area_id) ==
    IF area_id \in DOMAIN scan.weighted_devices_by_area
    THEN scan.weighted_devices_by_area[area_id]
    ELSE <<>>

\* The virtual sensors, sensor.climate_<area>_temperature and _humidity.
VirtualSensors == {"area_a", "area_b"} \X {"temperature", "humidity"}

\* No state of that name: state.get raises NameError.
NoState == Word("NameError")

\* The text update_room_climate_sensors publishes for a temperature.
PublishedText(temperature) ==
    IF temperature # NoValue THEN format_1f(temperature) ELSE Word("unavailable")

\* The loop of update_room_climate_sensors over the areas with valves: the
\* states of the virtual sensors after it.
Publish(pub, scan) ==
    [v \in DOMAIN pub |->
        IF v[1] \notin Range(scan.areas) THEN pub[v]
        ELSE LET value == calculate_weighted_climate(v[2], WeightedDevicesOf(scan, v[1]))
             IN IF v[2] = "temperature" THEN PublishedText(value)
                ELSE IF value # NoValue THEN format_1f(value)
                ELSE pub[v]]

\* The value update_external_temperatures writes for an area whose virtual
\* sensor has the state given.
FeedbackValue(state_obj) ==
    IF state_obj = NoState THEN EXTERNAL_SENSOR_DISABLED
    ELSE IF state_obj \notin {Word("None"), Word("unavailable"), Word("unknown")}
         THEN IF IsNumeral(state_obj)
              THEN round(FloatMul(float(state_obj), Float(100, 0)))
              ELSE EXTERNAL_SENSOR_DISABLED
    ELSE EXTERNAL_SENSOR_DISABLED

\* What a cycle has done, in order: the states it set and the writes it
\* handed to queue_zigbee_write.
PublishEvent(area_id, text) ==
    [kind |-> "publish", area_id |-> area_id, device |-> "", text |-> text, value |-> 0]
WriteEvent(area_id, device, value) ==
    [kind |-> "write", area_id |-> area_id, device |-> device, text |-> Word(""),
     value |-> value]

IdleCycle ==
    [pc |-> "idle", scan |-> [areas |-> <<>>, trv_devices_by_area |-> <<>>], area |-> 0, device |-> 0, temperature |-> 0,
     aggregated |-> <<>>, log |-> <<>>]

NoFb == [op |-> "none", cycle |-> 0]

\* The position after the device at (area, device): the next device of the
\* area, as it would be if the loop over the devices ended after its first.
AfterDeviceFirstOnly(scan, area, device) == [area |-> area + 1, device |-> 1]

\* The position after the device at (area, device): the next device of the
\* area, or the first of the next area.
AfterDevice(scan, area, device) ==
    IF device < Len(scan.trv_devices_by_area[scan.areas[area]])
    THEN [area |-> area, device |-> device + 1]
    ELSE [area |-> area + 1, device |-> 1]

\* The loops of update_external_temperatures from the device at (area,
\* device) on, up to the first await that suspends or to the end.  The virtual
\* sensor of an area is read when the loop enters the area; temperature is the
\* value read for the area the loop is in.
RECURSIVE Feed(_, _, _, _, _)
Feed(c, pub, zha, area, device) ==
    IF area > Len(c.scan.areas) THEN [c EXCEPT !.pc = "done", !.area = 0, !.device = 0]
    ELSE LET area_id == c.scan.areas[area]
             temperature == IF device = 1
                            THEN FeedbackValue(pub[<<area_id, "temperature">>])
                            ELSE c.temperature
             d == c.scan.trv_devices_by_area[area_id][device]
             called == [c EXCEPT !.temperature = temperature,
                                 !.log = Append(@, WriteEvent(area_id, d.id, temperature))]
             next == AfterDevice(c.scan, area, device)
         IN IF zha[d.id]
            THEN [called EXCEPT !.pc = "writing", !.area = area, !.device = device]
            ELSE Feed(called, pub, zha, next.area, next.device)

\* What the log holds after the publications of a scan.
PublishLog(pub, scan) ==
    [i \in 1..Len(scan.areas) |->
        PublishEvent(scan.areas[i], pub[<<scan.areas[i], "temperature">>])]

\* The valves update_external_temperatures calls queue_zigbee_write for from
\* the device at (area, device) on.
ValvesFrom(scan, area, device) ==
    {scan.trv_devices_by_area[scan.areas[i]][j].id :
        <<i, j>> \in {p \in (1..Len(scan.areas)) \X (1..2) :
                        /\ p[2] <= Len(scan.trv_devices_by_area[scan.areas[p[1]]])
                        /\ \/ p[1] > area
                           \/ p[1] = area /\ p[2] >= device}}

\* What get_zigbee_device finds for the valves called from (area, device)
\* on: whether each resolves.
ZhaViews(scan, area, device) == [ValvesFrom(scan, area, device) -> BOOLEAN]

InitCycle ==
    /\ QueueInit
    /\ samples = <<>>
    /\ aggregate = NoAggregate
    /\ readings \in SensorChoices
    /\ published = [v \in VirtualSensors |-> NoState]
    /\ cycle = [c \in CycleIds |-> IdleCycle]
    /\ fb = NoFb

\* The trigger of update_room_climate_sensors fires (the */5 cron, startup or
\* a service call): the task scans, aggregates and publishes every area, scans
\* again and feeds back up to its first suspension.  Cycles are numbered in
\* the order of their triggers.
StartCycle(c) ==
    /\ cycle[c].pc = "idle"
    /\ \A b \in CycleIds : b < c => cycle[b].pc # "idle"
    /\ published' = Publish(published, get_all_climate_devices(readings))
    /\ LET scan == get_all_climate_devices(readings)
           started == [IdleCycle EXCEPT
                         !.scan = [areas |-> scan.areas,
                                   trv_devices_by_area |-> scan.trv_devices_by_area],
                         !.aggregated =
                             [a \in Range(scan.areas) |->
                                 calculate_weighted_climate("temperature",
                                                            WeightedDevicesOf(scan, a))],
                         !.log = PublishLog(published', scan)]
       IN \E zha \in ZhaViews(scan, 1, 1) :
              cycle' = [cycle EXCEPT ![c] = Feed(started, published', zha, 1, 1)]
    /\ fb' = [op |-> "start", cycle |-> c]
    /\ UNCHANGED <<samples, aggregate, readings>>
    /\ UNCHANGED queue_vars

\* The transport write a cycle is suspended in returns.
ResumeCycle(c, zha) ==
    /\ cycle[c].pc = "writing"
    /\ LET next == AfterDevice(cycle[c].scan, cycle[c].area, cycle[c].device)
       IN cycle' = [cycle EXCEPT ![c] = Feed(cycle[c], published, zha, next.area, next.device)]
    /\ fb' = [op |-> "resume", cycle |-> c]
    /\ UNCHANGED <<samples, aggregate, readings, published>>
    /\ UNCHANGED queue_vars

\* The sensors of the home report something else, or a label is changed.  Only
\* the scan at the start of a cycle reads them, so changes are followed as
\* long as a cycle is still to start.
SensorsChange(rd) ==
    /\ rd # readings
    /\ \E c \in CycleIds : cycle[c].pc = "idle"
    /\ readings' = rd
    /\ fb' = [op |-> "sensors", cycle |-> 0]
    /\ UNCHANGED <<samples, aggregate, published, cycle>>
    /\ UNCHANGED queue_vars

NextCycle ==
    \/ \E c \in CycleIds : StartCycle(c)
    \/ \E c \in CycleIds :
           \E zha \in ZhaViews(cycle[c].scan, cycle[c].area, cycle[c].device + 1) :
               ResumeCycle(c, zha)
    \/ \E rd \in SensorChoices : SensorsChange(rd)

SpecCycle == InitCycle /\ [][NextCycle]_vars

\* ---------------------------------------------------------------- claims
Occurrences(seq, x) == Cardinality({i \in 1..Len(seq) : seq[i] = x})
Pending(k) == pending_writes[k] # NoRef
EntryAt(k) == EntryOf(entries, pending_writes[k])
\* queue_zigbee_write has just returned False after a failed transport write.
SubmitQueued == ev.op = "submit" /\ ev.answered = "failed"

\* C1: when a submit fails while the map already holds an entry for its key
\* (whatever retry count that entry has reached), the map afterwards holds exactly
\* one entry for the key, with the new request's value and description and retry
\* count 0.
C1_Supersession ==
    (SubmitQueued /\ ev.prev # NoRef) =>
        /\ Pending(ev.key)
        /\ Occurrences(key_order, ev.key) = 1
        /\ EntryAt(ev.key).value = ev.value
        /\ EntryAt(ev.key).description = ev.description
        /\ EntryAt(ev.key).retry_count = 0

\* C1's case: the entry was there when the second call was made, a sweep had
\* already counted a failed retry for it, and the second request, with another
\* value, failed too.
C1_Witness ==
    /\ SubmitQueued
    /\ ev.prev # NoRef
    /\ ev.atcall
    /\ ev.prevn > 0
    /\ ev.prevvalue # ev.value

\* C2: when two calls for one key overlap and both transport writes fail, the
\* entry left holds the value of the call made later, whichever write returned
\* first.  Stated at the return of the earlier call: it finds the entry the later
\* call built (ev.prev is the number of the call that built it) and must leave
\* that call's value.
C2_LaterCallWins ==
    (SubmitQueued /\ ev.prev > ev.ref) => EntryAt(ev.key).value = ev.prevvalue

\* C3: when the transport write of a submit succeeds, the call returns True,
\* the map holds no entry for the key afterwards, and the entries of all other
\* keys are as they were.
C3_SuccessClears ==
    [][(ev'.op = "submit" /\ ev'.answered = "ok") =>
          /\ ev'.ret = "True"
          /\ pending_writes'[ev'.key] = NoRef
          /\ Occurrences(key_order', ev'.key) = 0
          /\ \A k \in Keys \ {ev'.key} :
                /\ pending_writes'[k] = pending_writes[k]
                /\ EntryOf(entries', pending_writes'[k]) = EntryAt(k)]_vars

\* C3's case: the key had an entry, left by an earlier failed call, when the
\* write succeeded, and has none now.
C3_Witness ==
    /\ ev.op = "submit"
    /\ ev.answered = "ok"
    /\ ev.ret = "True"
    /\ ev.prev # NoRef
    /\ ~Pending(ev.key)

\* C4: after every call of queue_zigbee_write that returns False, the device
\* unresolved or not, the map holds an entry for the key with the submitted value
\* and retry count 0.
C4_FalseMeansQueued ==
    (ev.op = "submit" /\ ev.ret = "False") =>
        /\ Pending(ev.key)
        /\ EntryAt(ev.key).value = ev.value
        /\ EntryAt(ev.key).retry_count = 0

\* The delays the backoff is stated to give for retry counts 0..8.
StatedDelays == <<60, 120, 240, 480, 960, 1920, 3840, 7680, 14400>>

\* C5: the delay a sweep uses for an entry with retry count n is
\* min(60 * 2^n, 14400): 60, 120, 240, 480, 960, 1920, 3840, 7680, 14400 for
\* n = 0..8 and 14400 beyond, never above 14400 and never below the delay of a
\* smaller retry count; the sweep passes the entry over exactly when less than
\* that delay has elapsed since its last attempt.
C5_BackoffDelay ==
    \A k \in Keys :
        LET seen == ev.out[k]
        IN seen.n >= 0 =>
            /\ seen.delay = IF seen.n <= 8 THEN StatedDelays[seen.n + 1] ELSE 14400
            /\ seen.delay <= 14400
            /\ \A m \in 0..seen.n : BackoffDelay(m) <= seen.delay
            /\ (seen.what = "not_due") <=> (seen.elapsed < seen.delay)

\* C5's case: a sweep retries an entry that has failed eight times, the first
\* retry count at the ceiling, once 14400 seconds have elapsed.
C5_Witness ==
    \E k \in Keys :
        /\ ev.out[k].what = "write"
        /\ ev.out[k].n = 8
        /\ ev.out[k].delay = 14400
        /\ ev.out[k].elapsed >= 14400

\* The seconds by which a step moves the clock (a cron firing; no other step does).
Elapsed(e) == IF e.op = "sweep" THEN e.dt ELSE 0
\* The time of the sweep run that a sweep or resume step belongs to, on the
\* clock of the state the step starts in.
SweepTime(e) == IF e.op = "sweep" THEN e.dt ELSE sweep[e.proc].now
\* The entry dict as it reads once dt seconds have passed.
Later(entry, dt) == [entry EXCEPT !.last_attempt = @ - dt]

\* C6: in every step of a sweep run at time now, every pending entry with
\* now - last_attempt below its backoff delay stays in the map with its value,
\* description, retry count and last-attempt time unchanged; an entry is
\* attempted or removed only if it is due; a sweep over an empty map changes
\* nothing.  The entry dict whose attempt the step completes was due when the
\* run read it and is left out of the first part.
C6_NotDueUntouched ==
    [][ev'.op \in {"sweep", "resume"} =>
          /\ \A k \in Keys :
                (/\ Pending(k)
                 /\ pending_writes[k] # ev'.ref
                 /\ NotYetDue(SweepTime(ev'), EntryAt(k))) =>
                    /\ pending_writes'[k] = pending_writes[k]
                    /\ EntryOf(entries', pending_writes'[k])
                           = Later(EntryAt(k), Elapsed(ev'))
          /\ \A k \in Keys :
                ev'.out[k].what \in {"write", "device_gone", "no_zha", "no_zha_gave_up"}
                    => ev'.out[k].elapsed >= ev'.out[k].delay
          /\ ev'.end = "noop" =>
                /\ pending_writes' = pending_writes
                /\ key_order' = key_order
                /\ entries' = entries]_vars

\* C7: when the retry a sweep made for an entry fails, the entry dict has its
\* retry count raised by exactly 1 and its last-attempt time set to the sweep's
\* time (a dict nothing refers to any more is dropped); while the new count is
\* below MAX_RETRIES an entry the map holds stays in the map, and when the count
\* reaches MAX_RETRIES the map does not hold the entry afterwards.  A request
\* removed that way is never attempted again: the map never holds an entry with
\* MAX_RETRIES failures, and a sweep only starts attempts for entries of the map.
C7_FailedRetry ==
    [][/\ (ev'.op = "resume" /\ ev'.answered = "failed") =>
             LET r == ev'.ref
                 n == entries[r].retry_count + 1
                 counted == [entries[r] EXCEPT !.retry_count = n,
                                               !.last_attempt = sweep[ev'.proc].now]
             IN /\ entries'[r] \in {counted, NoEntry}
                /\ ev'.ret = IF n >= MAX_RETRIES THEN "gave_up" ELSE "failed"
                /\ n >= MAX_RETRIES =>
                      /\ \A k \in Keys : pending_writes'[k] # r
                      /\ Occurrences(key_order', ev'.key) = 0
                /\ (n < MAX_RETRIES /\ pending_writes[ev'.key] = r) =>
                      /\ pending_writes'[ev'.key] = r
                      /\ entries'[r] = counted
       /\ \A k \in Keys : pending_writes'[k] # NoRef =>
             entries'[pending_writes'[k]].retry_count < MAX_RETRIES
       /\ (ev'.op \in {"sweep", "resume"} /\ ev'.end = "writing") =>
             LET me == sweep'[ev'.proc]
             IN /\ pending_writes'[me.key] = me.entry
                /\ entries'[me.entry].retry_count < MAX_RETRIES]_vars

\* C7's case: the retry of an entry that had failed MAX_RETRIES - 1 times failed
\* again, and the sweep removed the entry.
C7_Witness ==
    /\ ev.op = "resume"
    /\ ev.answered = "failed"
    /\ ev.ret = "gave_up"
    /\ ev.prev = ev.ref
    /\ ev.prevn = MAX_RETRIES - 1
    /\ ~Pending(ev.key)

\* C8: when the retry a sweep made for an entry succeeds, the map does not hold
\* the entry afterwards, the success has been reported exactly once for it, and
\* no sweep starts an attempt for an entry whose success has been reported.
C8_SucceedsOnce ==
    /\ (ev.op = "resume" /\ ev.answered = "ok") =>
          /\ \A k \in Keys : pending_writes[k] # ev.ref
          /\ ev.reports = 1
    /\ (ev.op \in {"sweep", "resume"} /\ ev.end = "writing") =>
          reported[sweep[ev.proc].entry] = 0

\* The device of a key did not resolve when the sweep of the last step reached
\* the key's due entry: the registry no longer has it (line 221), or
\* get_zigbee_device finds no network identity for it (line 228).
Unresolved(k) == ev.out[k].what \in {"device_gone", "no_zha", "no_zha_gave_up"}

\* C9: when the device of a due entry does not resolve in a sweep (removed from
\* the registry, or without a network identity), the sweep removes the entry
\* without counting a failure and without a transport write: afterwards the map
\* holds no entry for the key and the sweep is not writing for it.
C9_UnresolvedRemoved ==
    \A k \in Keys :
        Unresolved(k) =>
            /\ ~Pending(k)
            /\ ~(sweep[ev.proc].pc = "writing" /\ sweep[ev.proc].key = k)

\* The last step removed the entry of key k for one of the three stated
\* reasons: a write for k succeeded (lines 137-139, 248-250), its retries are
\* exhausted (lines 232-234, 254-256), or its device is gone (lines 221-224).
RemovedFor(e, k) ==
    \/ e.op = "submit" /\ e.key = k /\ e.answered = "ok"
    \/ e.op = "resume" /\ e.key = k /\ e.ret \in {"success", "gave_up"}
    \/ e.op \in {"sweep", "resume"} /\ e.out[k].what \in {"device_gone", "no_zha_gave_up"}

\* C10: while the map holds an entry its retry count never decreases; an entry
\* leaves the map only through a successful write, exhausted retries or a device
\* that is gone; and no step deletes a key the map does not hold.
C10_RemovedOnce ==
    [][/\ \A k \in Keys :
             (Pending(k) /\ pending_writes'[k] = pending_writes[k]) =>
                 entries'[pending_writes'[k]].retry_count >= EntryAt(k).retry_count
       /\ \A k \in Keys :
             (Pending(k) /\ pending_writes'[k] = NoRef) => RemovedFor(ev', k)
       /\ ~ev'.raised]_vars

\* The key of the transport write a suspended task is waiting for.
WriteKey(p) ==
    IF p[1] = "submit"
    THEN <<submit[p[2]].device, submit[p[2]].cluster, submit[p[2]].attribute>>
    ELSE sweep[p[2]].key

\* C11: no two transport writes for the same key are in flight at once, whatever
\* the interleaving of queue_zigbee_write calls and sweeps.  Stated for the
\* write of a sweep against every other write in flight, a sweep's or a call's.
C11_OneWritePerKey ==
    \A p \in InFlight :
        p[1] = "sweep" => \A q \in InFlight \ {p} : WriteKey(p) # WriteKey(q)

\* C12: get_pending_writes leaves the map and its entries as they are, and the
\* dict it returns gives, for every pending entry, under the entry's label, the
\* entry's device name, value, retry count and description.
C12_SnapshotReadOnly ==
    [][ev'.op = "snapshot" =>
          /\ pending_writes' = pending_writes
          /\ key_order' = key_order
          /\ entries' = entries
          /\ \A k \in Keys :
                Pending(k) =>
                    /\ SnapshotLabel(ev'.heads, k) \in DOMAIN ev'.snap
                    /\ ev'.snap[SnapshotLabel(ev'.heads, k)] = SnapshotValue(EntryAt(k))]_vars

\* ---- the aggregator (C13, C14, C15)
\* The numeral an entity gives the aggregator, if it gives one.
Readable(entity) ==
    /\ entity.in_state
    /\ entity.state \notin {Word("unavailable"), Word("unknown")}
    /\ IF entity.domain = "climate" THEN IsNumeral(entity.current_temperature)
       ELSE IsNumeral(entity.state)

ReadingOf(entity) ==
    IF entity.domain = "climate" THEN entity.current_temperature ELSE entity.state

\* The sample has a reading of the device class: an entity matches and gives
\* a numeral.
Available(sample, device_class) ==
    /\ get_climate_entity_for_device(sample.device, device_class) # NoEntity
    /\ Readable(get_climate_entity_for_device(sample.device, device_class))

ValueOf(sample, device_class) ==
    float(ReadingOf(get_climate_entity_for_device(sample.device, device_class)))

Contributing(device_class) ==
    SelectSeq(samples, LAMBDA sample : Available(sample, device_class))

\* Float sums taken in the order of the list.
RECURSIVE SumOfWeights(_, _)
SumOfWeights(list, n) ==
    IF n = 0 THEN Float(0, 0) ELSE FloatAdd(SumOfWeights(list, n - 1), list[n].weight)

RECURSIVE SumOfProducts(_, _, _)
SumOfProducts(list, n, device_class) ==
    IF n = 0 THEN Float(0, 0)
    ELSE FloatAdd(SumOfProducts(list, n - 1, device_class),
                  FloatMul(ValueOf(list[n], device_class), list[n].weight))

Aggregated == aggregate # NoAggregate

\* C13: calculate_weighted_climate returns None when no sample contributes or
\* the weights of the contributing samples sum to zero, and otherwise the sum
\* of weight * value divided by the sum of the weights, a sum that is not zero.
\* The sums are the float sums taken in list order.
C13_NoDataOrQuotient ==
    Aggregated =>
        LET list == Contributing(aggregate.device_class)
            weights == SumOfWeights(list, Len(list))
            products == SumOfProducts(list, Len(list), aggregate.device_class)
        IN IF Len(list) = 0 \/ weights = Float(0, 0)
           THEN aggregate.result = NoValue
           ELSE aggregate.result = FloatDiv(products, weights)

\* Two samples contribute, with weights that are not zero and sum to zero.
C13_Witness ==
    /\ Aggregated
    /\ Len(Contributing(aggregate.device_class)) = 2
    /\ Len(samples) = 2
    /\ samples[1].weight # Float(0, 0)
    /\ FloatAdd(samples[1].weight, samples[2].weight) = Float(0, 0)
    /\ aggregate.result = NoValue

\* C14: when the list is not empty, every weight is above zero and every
\* sample has a reading, the result is a value between the least and the
\* greatest of the sample values, both included.
C14_WithinMinMax ==
    (/\ Aggregated
     /\ Len(samples) > 0
     /\ \A i \in 1..Len(samples) :
            /\ FloatLess(Float(0, 0), samples[i].weight)
            /\ Available(samples[i], aggregate.device_class))
    => /\ aggregate.result # NoValue
       /\ \E i \in 1..Len(samples) :
              FloatLeq(ValueOf(samples[i], aggregate.device_class), aggregate.result)
       /\ \E i \in 1..Len(samples) :
              FloatLeq(aggregate.result, ValueOf(samples[i], aggregate.device_class))

\* C15: a weighted sensor without a reading (no matching entity, an entity the
\* state machine does not know, state unavailable or unknown, a state that is
\* no number, no current_temperature) adds nothing to the weighted sum and
\* nothing to the weight sum: the totals and the result are those of the list
\* of the samples that have a reading, and the result is None when no sample
\* has one.
C15_UnavailableSkipped ==
    Aggregated =>
        LET list == Contributing(aggregate.device_class)
            totals == Totals(aggregate.device_class, samples, Len(samples))
        IN /\ totals.total_weighted_value =
                  SumOfProducts(list, Len(list), aggregate.device_class)
           /\ totals.total_weight = SumOfWeights(list, Len(list))
           /\ aggregate.result = calculate_weighted_climate(aggregate.device_class, list)
           /\ Len(list) = 0 => aggregate.result = NoValue

\* A sample without a reading and with a weight that is not zero stands before
\* a sample with one, and the result is a number.
C15_Witness ==
    /\ Aggregated
    /\ Len(samples) = 2
    /\ ~Available(samples[1], aggregate.device_class)
    /\ samples[1].weight # Float(0, 0)
    /\ Available(samples[2], aggregate.device_class)
    /\ aggregate.result # NoValue

\* ---- the feedback cycle (C16, C17, C18, C19)
\* The writes a cycle has handed to queue_zigbee_write so far, in order.
WritesIn(task) == SelectSeq(task.log, LAMBDA event : event.kind = "write")
WritesOf(c) == WritesIn(cycle[c])

\* The areas the cycle has aggregated and published.
AreasDone(c) == DOMAIN cycle[c].aggregated

\* The state the cycle set for the temperature sensor of the area.
PublishedIn(task, area_id) ==
    LET at == CHOOSE i \in 1..Len(task.log) :
                  task.log[i].kind = "publish" /\ task.log[i].area_id = area_id
    IN task.log[at].text
PublishedBy(c, area_id) == PublishedIn(cycle[c], area_id)

\* The float's exact value times 100, rounded to the nearest integer.
Centidegrees(x) ==
    IF x.e >= 0 THEN x.m * 100 * Pow2(x.e)
    ELSE Sign(x.m) * RoundHalfEven(Abs(x.m) * 100, 0 - x.e)

\* The aggregate of a sensor of weight 1.0 reading 20.0 and one of weight 0.5
\* reading 22.0.
ScenarioAggregate ==
    FloatDiv(FloatAdd(FloatMul(float(Numeral(200)), float(Numeral(10))),
                      FloatMul(float(Numeral(220)), float(Numeral(5)))),
             FloatAdd(float(Numeral(10)), float(Numeral(5))))

\* C16: every write of a cycle for a valve of an area whose temperature the
\* cycle aggregated to a number has the value of that aggregate times 100,
\* rounded to the nearest integer; with the sensors of the first area at 20.0
\* (weight 1.0) and 22.0 (weight 0.5) the value written is 2067.
C16_FeedbackIsAggregate ==
    \A c \in CycleIds : \A i \in 1..Len(WritesOf(c)) :
        LET w == WritesOf(c)[i]
            temperature == cycle[c].aggregated[w.area_id]
        IN temperature # NoValue =>
               /\ w.value = Centidegrees(temperature)
               /\ temperature = ScenarioAggregate => w.value = 2067

\* C17: for every area with a valve whose temperature a cycle aggregated to no
\* data, the cycle published "unavailable" and every write of the cycle for a
\* valve of the area is the sentinel, a write every valve of the area has got
\* when the cycle is done; and the cycle writes the sentinel for no other area.
C17_SentinelIffNoData ==
    \A c \in CycleIds :
        /\ \A a \in AreasDone(c) :
               cycle[c].aggregated[a] = NoValue =>
                   /\ PublishedBy(c, a) = Word("unavailable")
                   /\ \A i \in 1..Len(WritesOf(c)) :
                          WritesOf(c)[i].area_id = a =>
                              WritesOf(c)[i].value = EXTERNAL_SENSOR_DISABLED
                   /\ cycle[c].pc = "done" =>
                          \A d \in Range(cycle[c].scan.trv_devices_by_area[a]) :
                              \E i \in 1..Len(WritesOf(c)) : WritesOf(c)[i].device = d.id
        /\ \A i \in 1..Len(WritesOf(c)) :
               WritesOf(c)[i].value = EXTERNAL_SENSOR_DISABLED =>
                   cycle[c].aggregated[WritesOf(c)[i].area_id] = NoValue

\* The valves of the home that have an area.
ValvesWithArea == {"trv_a", "trv_b", "trv_c"}

WritesLeft(c) ==
    /\ cycle[c].pc = "writing"
    /\ ValvesFrom(cycle[c].scan, cycle[c].area, cycle[c].device + 1) # {}

\* C19: no cycle starts, and so aggregates and publishes, while an earlier
\* cycle has writes left to hand over, and every write of a cycle has the value
\* of the state that cycle published for the area.
C19_CyclesDoNotInterleave ==
    [][/\ fb'.op = "start" => \A b \in CycleIds : ~WritesLeft(b)
       /\ \A c \in CycleIds : \A i \in 1..Len(WritesIn(cycle'[c])) :
              WritesIn(cycle'[c])[i].value =
                  FeedbackValue(PublishedIn(cycle'[c], WritesIn(cycle'[c])[i].area_id))]_vars

\* C20: a run of process_pending_writes ends only by reaching the end of its
\* list of keys: no step of a sweep, whatever submit calls and other sweeps did
\* while it was suspended, ends in an exception that drops the keys left.
C20_SweepNeverAborts ==
    [][ev'.op \in {"sweep", "resume"} =>
           /\ ~ev'.raised
           /\ ev'.end \in {"noop", "done", "writing"}]_vars

\* The sweep whose attempt the step completes made it for an entry dict that a
\* later queue_zigbee_write for the same key has replaced in the map meanwhile.
Superseded(e) ==
    /\ e.op = "resume"
    /\ pending_writes[e.key] # NoRef
    /\ pending_writes[e.key] # e.ref

\* C21: when a submit for the same key has replaced the entry while the sweep's
\* transport write for it was in flight, the completion of the sweep's attempt,
\* whatever its outcome, leaves the superseding entry in the map with its value,
\* retry count and last-attempt time as they were.
C21_SupersederUntouched ==
    [][Superseded(ev') =>
          /\ pending_writes'[ev'.key] = pending_writes[ev'.key]
          /\ Occurrences(key_order', ev'.key) = 1
          /\ entries'[pending_writes[ev'.key]] = EntryAt(ev'.key)]_vars

\* The last step belongs to a queue_zigbee_write for key k: the call was made,
\* or it returned.
SubmitStepFor(k) == ev.op \in {"call", "submit"} /\ ev.key = k

\* C22: every pending entry is eventually removed.  Under SpecLive (the cron
\* trigger keeps firing, time advances, every transport write returns), an
\* entry the map holds for a key leaves the map unless a further submit is made
\* for the key; while it is pending it has fewer than MAX_RETRIES failures
\* counted; and a step that is no submit's removes it only for a successful
\* retry, exhausted retries or a device that is gone.
C22_EventuallyRemoved ==
    /\ \A k \in Keys : Pending(k) ~> (~Pending(k) \/ SubmitStepFor(k))
    /\ [][\A k \in Keys :
             /\ pending_writes'[k] # NoRef =>
                   entries'[pending_writes'[k]].retry_count < MAX_RETRIES
             /\ (Pending(k) /\ pending_writes'[k] = NoRef /\ ev'.op # "submit") =>
                   \/ ev'.op = "resume" /\ ev'.key = k /\ ev'.ret \in {"success", "gave_up"}
                   \/ ev'.out[k].what \in {"device_gone", "no_zha_gave_up"}]_vars

\* C22's case: a pending entry has failed MAX_RETRIES - 1 times, its device has
\* no network identity when it is due again, and the sweep counts the last
\* failure and removes it: the entry has left the map.
C22_Witness ==
    \E k \in Keys :
        /\ ev.op = "sweep"
        /\ ev.out[k].what = "no_zha_gave_up"
        /\ ev.out[k].n = MAX_RETRIES - 1
        /\ ~Pending(k)

\* The retries process_pending_writes has started for the entry dict r that the
\* map holds: those that failed (each counted once in retry_count, lines
\* 252-253, no failure being counted at line 230 under SpecRetries) and those in
\* flight.  A retry that succeeds removes the key (line 250), so none of a
\* pending entry's retries has succeeded.
RetriesStarted(r) ==
    entries[r].retry_count
        + Cardinality({w \in SweepIds : sweep[w].pc = "writing" /\ sweep[w].entry = r})

\* C23: every entry the map holds has a retry count in 0..MAX_RETRIES-1 and
\* stores the device id, cluster and attribute of its key; and the request of
\* an entry the map holds (it has not been superseded) has caused at most
\* 1 + MAX_RETRIES transport writes: the immediate one of queue_zigbee_write
\* and at most MAX_RETRIES retries.
C23_BoundedAttempts ==
    \A k \in Keys :
        Pending(k) =>
            /\ EntryAt(k).retry_count \in 0..(MAX_RETRIES - 1)
            /\ <<EntryAt(k).device_id, EntryAt(k).cluster, EntryAt(k).attribute>> = k
            /\ 1 + RetriesStarted(pending_writes[k]) <= 1 + MAX_RETRIES

====
